---- MODULE Spec2Model ----
(***************************************************************************)
(* Model of the faceid-backend canister (src/lib.rs): the authorization    *)
(* and session state machine in front of the ONNX inference engine.        *)
(*                                                                         *)
(* Every update/query call of a canister runs to completion before the     *)
(* next one starts (none of the entry points awaits), so each entry point  *)
(* is one atomic action.  The inference engine (mod onnx) and the byte     *)
(* storage (mod storage) are collaborators: the engine's answer to a call  *)
(* is an input of the action, chosen nondeterministically; the image       *)
(* bytes only travel to the engine and are covered by that choice.         *)
(*                                                                         *)
(* Two specifications share the state and the actions.  Spec is the        *)
(* recognition/enrollment core: recognize, add, toggle_add_function and    *)
(* the queries.  SpecAdmin is the admin control plane: the admin gate,     *)
(* toggle_add_function, the model-byte entry points and setup_models.      *)
(* The model-byte entry points read and write the byte storage only, and   *)
(* no entry point of the core reads it.                                    *)
(***************************************************************************)
EXTENDS Integers, FiniteSets, Sequences, TLC

(***************************************************************************)
(* Bounds of the model.                                                    *)
(***************************************************************************)
\* model value of MAX_ADD_CALLS (200 in the source)
MaxAddCallsBound == 2
\* recognize is not called any more by a caller whose counter reached this
MaxAttemptCount == 5
\* longest model blob kept by the byte storage
MaxBlobLen == 2

(***************************************************************************)
(* Program constants.                                                      *)
(***************************************************************************)
MAX_ADD_CALLS == MaxAddCallsBound
MAX_ATTEMPTS == 3
ACCESS_CODE == "qMu11Dfmw"
FACE_DETECTION_FILE == "face-detection.onnx"
FACE_RECOGNITION_FILE == "face-recognition.onnx"

\* Principals: Principal::anonymous(), the principal that ADMIN_PRINCIPAL
\* parses to, and two ordinary callers.  NoCaller marks the response of an
\* entry point that does not read ic_cdk::caller().
Anonymous == "anonymous"
ADMIN_PRINCIPAL == "admin"
Identities == {Anonymous, ADMIN_PRINCIPAL, "userA", "userB"}
NoCaller == "-"

Labels == {"alice", "carol"}
Scores == {90}
Codes == {ACCESS_CODE, "wrong-code"}
Chunks == {<<1>>, <<2>>}
Files == {FACE_DETECTION_FILE, FACE_RECOGNITION_FILE}

\* A Person as returned by onnx::recognize.
Person == [label : Labels, score : Scores]

\* Answers of the inference engine: Ok(..) or Err(e); e.to_string() is the
\* message of the Err answer.
EngineErrMsg == "engine: inference failed"
RecognizeAnswers == [ok : {TRUE}, person : Person] \cup {[ok |-> FALSE, msg |-> EngineErrMsg]}
UnitAnswers == {[ok |-> TRUE], [ok |-> FALSE, msg |-> EngineErrMsg]}

(***************************************************************************)
(* Error messages of the entry points, named by the error kind.            *)
(***************************************************************************)
MsgNotEnrolled == "Unauthorized: User not in the allowed set"
MsgAlreadyRecognized == "Recognition already successful. Further attempts not allowed"
MsgMaxAttempts == "Maximum recognition attempts exceeded"
MsgFailedAfter == "Recognition failed after 3 attempts"
MsgAnonymous == "Anonymous callers are not allowed"
MsgFrontend == "Unauthorized frontend access"
MsgDisabled == "This function is currently disabled"
MsgAlreadyEnrolled == "You have already added a face"
MsgCapacity == "Maximum number of add calls reached"
MsgLabelRecognized == "This face has already been recognized and cannot be added again"
MsgToggleNotAdmin == "Only the admin can toggle this function"
MsgNotAdmin == "Unauthorized: only the admin can perform this action"
MsgInvalidAdmin == "Invalid admin principal"
MsgSetupFailed == "Failed to setup model: engine: inference failed"
Ok == "Ok"

VARIABLES
    RECOGNITION_ATTEMPTS,   \* HashMap<Principal, u32>: a function on its keys
    RECOGNITION_RESULTS,    \* HashMap<Principal, (String, f32)>
    ADD_CALLERS,            \* HashSet<Principal>
    ADD_COUNT,              \* usize
    IS_ENABLED,             \* bool
    blobs,                  \* the byte storage: file name -> bytes
    engineCalls,            \* history: onnx::recognize invocations per caller
    addOk,                  \* history: add calls that returned Ok per caller
    gatedCalls,             \* history: recognize calls per caller that passed both gates
    last                    \* the last call: entry point, caller, response, collaborator use

state == <<RECOGNITION_ATTEMPTS, RECOGNITION_RESULTS, ADD_CALLERS, ADD_COUNT, IS_ENABLED>>
history == <<engineCalls, addOk, gatedCalls>>
vars == <<RECOGNITION_ATTEMPTS, RECOGNITION_RESULTS, ADD_CALLERS, ADD_COUNT, IS_ENABLED,
          blobs, engineCalls, addOk, gatedCalls, last>>

\* HashMap::insert / entry: the map with key k bound to v.
Put(m, k, v) == [x \in (DOMAIN m) \cup {k} |-> IF x = k THEN v ELSE m[x]]

\* The response of a call as the caller sees it, and what it used.
\*   collab: "none" when no collaborator was invoked, "ok" / "err" for the
\*           answer of the inference engine, "storage" for a storage call;
\*   value:  the payload of the response (a set, empty when there is none).
Response(op, caller, arg, result, collab, value) ==
    [op |-> op, caller |-> caller, arg |-> arg, result |-> result, collab |-> collab,
     value |-> value]

Init ==
    /\ RECOGNITION_ATTEMPTS = <<>>
    /\ RECOGNITION_RESULTS = <<>>
    /\ ADD_CALLERS = {}
    /\ ADD_COUNT = 0
    /\ IS_ENABLED = FALSE
    /\ blobs = [f \in Files |-> <<>>]
    /\ engineCalls = [i \in Identities |-> 0]
    /\ addOk = [i \in Identities |-> 0]
    /\ gatedCalls = [i \in Identities |-> 0]
    /\ last = Response("init", Anonymous, <<>>, Ok, "none", {})

(***************************************************************************)
(* recognize                                                               *)
(***************************************************************************)
\* mutant: the enrollment gate of recognize lets every caller through
IsEnrolled_Open(caller) == TRUE

\* ADD_CALLERS.contains(&caller)
IsEnrolled(caller) == caller \in ADD_CALLERS

\* mutant: the cached-result gate of recognize is never taken
HasResult_Never(caller) == FALSE

\* RECOGNITION_RESULTS.contains_key(&caller)
HasResult(caller) == caller \in DOMAIN RECOGNITION_RESULTS

\* attempts.entry(caller).or_insert(0); *count += 1; *count
RecordAttempt(caller) ==
    IF caller \in DOMAIN RECOGNITION_ATTEMPTS THEN RECOGNITION_ATTEMPTS[caller] + 1 ELSE 1

\* mutant: the ceiling check is off by one
CeilingExceeded_OffByOne(attempts) == attempts > MAX_ATTEMPTS + 1

\* attempts > MAX_ATTEMPTS
CeilingExceeded(attempts) == attempts > MAX_ATTEMPTS

\* mutant: the engine's message is passed through on the final attempt too
RecognizeErrMsg_Raw(attempts, e) == e.msg

\* the message of the Err arm of the match on onnx::recognize
RecognizeErrMsg(attempts, e) == IF attempts = MAX_ATTEMPTS THEN MsgFailedAfter ELSE e.msg

\* mutant: the attempt is recorded ahead of the cached-result gate
recognize_CountFirst(caller, answer) ==
    IF ~IsEnrolled(caller) THEN
        /\ last' = Response("recognize", caller, <<>>, MsgNotEnrolled, "none", {})
        /\ UNCHANGED <<state, blobs, history>>
    ELSE
        LET attempts == RecordAttempt(caller) IN
        /\ attempts <= MaxAttemptCount
        /\ RECOGNITION_ATTEMPTS' = Put(RECOGNITION_ATTEMPTS, caller, attempts)
        /\ gatedCalls' = [gatedCalls EXCEPT ![caller] = @ + 1]
        /\ UNCHANGED <<ADD_CALLERS, ADD_COUNT, IS_ENABLED, blobs, addOk>>
        /\ IF HasResult(caller) THEN
               /\ last' = Response("recognize", caller, <<>>, MsgAlreadyRecognized, "none", {})
               /\ UNCHANGED <<RECOGNITION_RESULTS, engineCalls>>
           ELSE IF CeilingExceeded(attempts) THEN
               /\ last' = Response("recognize", caller, <<>>, MsgMaxAttempts, "none", {})
               /\ UNCHANGED <<RECOGNITION_RESULTS, engineCalls>>
           ELSE
               /\ engineCalls' = [engineCalls EXCEPT ![caller] = @ + 1]
               /\ IF answer.ok THEN
                      /\ RECOGNITION_RESULTS' = Put(RECOGNITION_RESULTS, caller,
                                                    <<answer.person.label, answer.person.score>>)
                      /\ last' = Response("recognize", caller, <<>>, Ok, "ok", {answer.person})
                  ELSE
                      /\ UNCHANGED RECOGNITION_RESULTS
                      /\ last' = Response("recognize", caller, <<>>,
                                          RecognizeErrMsg(attempts, answer), "err", {})

recognize(caller, answer) ==
    IF ~IsEnrolled(caller) THEN
        /\ last' = Response("recognize", caller, <<>>, MsgNotEnrolled, "none", {})
        /\ UNCHANGED <<state, blobs, history>>
    ELSE IF HasResult(caller) THEN
        /\ last' = Response("recognize", caller, <<>>, MsgAlreadyRecognized, "none", {})
        /\ UNCHANGED <<state, blobs, history>>
    ELSE
        LET attempts == RecordAttempt(caller) IN
        /\ attempts <= MaxAttemptCount
        /\ RECOGNITION_ATTEMPTS' = Put(RECOGNITION_ATTEMPTS, caller, attempts)
        /\ gatedCalls' = [gatedCalls EXCEPT ![caller] = @ + 1]
        /\ UNCHANGED <<ADD_CALLERS, ADD_COUNT, IS_ENABLED, blobs, addOk>>
        /\ IF CeilingExceeded(attempts) THEN
               /\ last' = Response("recognize", caller, <<>>, MsgMaxAttempts, "none", {})
               /\ UNCHANGED <<RECOGNITION_RESULTS, engineCalls>>
           ELSE
               /\ engineCalls' = [engineCalls EXCEPT ![caller] = @ + 1]
               /\ IF answer.ok THEN
                      /\ RECOGNITION_RESULTS' = Put(RECOGNITION_RESULTS, caller,
                                                    <<answer.person.label, answer.person.score>>)
                      /\ last' = Response("recognize", caller, <<>>, Ok, "ok", {answer.person})
                  ELSE
                      /\ UNCHANGED RECOGNITION_RESULTS
                      /\ last' = Response("recognize", caller, <<>>,
                                          RecognizeErrMsg(attempts, answer), "err", {})

(***************************************************************************)
(* add                                                                     *)
(***************************************************************************)
\* mutant: add does not look at the enrollment set
AlreadyAdded_Never(caller) == FALSE

\* ADD_CALLERS.contains(&caller), the check of add
AlreadyAdded(caller) == caller \in ADD_CALLERS

\* mutant: the capacity check uses > instead of >=
CapacityReached_OffByOne == ADD_COUNT > MAX_ADD_CALLS

\* *count.borrow() >= MAX_ADD_CALLS
CapacityReached == ADD_COUNT >= MAX_ADD_CALLS

\* mutant: add does not compare the label with the cached results
LabelRecognized_Never(label) == FALSE

\* results.values().any(|(rec_label, _)| rec_label == &label)
LabelRecognized(label) ==
    \E k \in DOMAIN RECOGNITION_RESULTS : RECOGNITION_RESULTS[k][1] = label

\* mutant: the label comparison is made ahead of the capacity check
AddRejection_LabelBeforeCapacity(caller, label, code) ==
    IF caller = Anonymous THEN MsgAnonymous
    ELSE IF code # ACCESS_CODE THEN MsgFrontend
    ELSE IF ~IS_ENABLED THEN MsgDisabled
    ELSE IF AlreadyAdded(caller) THEN MsgAlreadyEnrolled
    ELSE IF LabelRecognized(label) THEN MsgLabelRecognized
    ELSE IF CapacityReached THEN MsgCapacity
    ELSE "none"

\* mutant: add does not turn the anonymous principal away
AddRejection_NoAnonymous(caller, label, code) ==
    IF code # ACCESS_CODE THEN MsgFrontend
    ELSE IF ~IS_ENABLED THEN MsgDisabled
    ELSE IF AlreadyAdded(caller) THEN MsgAlreadyEnrolled
    ELSE IF CapacityReached THEN MsgCapacity
    ELSE IF LabelRecognized(label) THEN MsgLabelRecognized
    ELSE "none"

\* mutant: the enrollment check is made first, ahead of the access code and
\* the feature flag
AddRejection_EnrolledFirst(caller, label, code) ==
    IF caller = Anonymous THEN MsgAnonymous
    ELSE IF AlreadyAdded(caller) THEN MsgAlreadyEnrolled
    ELSE IF code # ACCESS_CODE THEN MsgFrontend
    ELSE IF ~IS_ENABLED THEN MsgDisabled
    ELSE IF CapacityReached THEN MsgCapacity
    ELSE IF LabelRecognized(label) THEN MsgLabelRecognized
    ELSE "none"

\* The early returns of add, in the order of the code; "none" when the call
\* reaches onnx::add.
AddRejection(caller, label, code) ==
    IF caller = Anonymous THEN MsgAnonymous
    ELSE IF code # ACCESS_CODE THEN MsgFrontend
    ELSE IF ~IS_ENABLED THEN MsgDisabled
    ELSE IF AlreadyAdded(caller) THEN MsgAlreadyEnrolled
    ELSE IF CapacityReached THEN MsgCapacity
    ELSE IF LabelRecognized(label) THEN MsgLabelRecognized
    ELSE "none"

\* mutant: the caller is inserted whatever onnx::add answers
AddCallersAfter_Early(caller, answer) == ADD_CALLERS \cup {caller}

\* ADD_CALLERS after the match on onnx::add
AddCallersAfter(caller, answer) ==
    IF answer.ok THEN ADD_CALLERS \cup {caller} ELSE ADD_CALLERS

\* mutant: the counter is incremented whatever onnx::add answers
AddCountAfter_Early(answer) == ADD_COUNT + 1

\* ADD_COUNT after the match on onnx::add
AddCountAfter(answer) ==
    IF answer.ok THEN ADD_COUNT + 1 ELSE ADD_COUNT

add(caller, label, code, answer) ==
    LET rejection == AddRejection(caller, label, code) IN
    IF rejection # "none" THEN
        /\ last' = Response("add", caller, <<label, code>>, rejection, "none", {})
        /\ UNCHANGED <<state, blobs, history>>
    ELSE
        /\ ADD_CALLERS' = AddCallersAfter(caller, answer)
        /\ ADD_COUNT' = AddCountAfter(answer)
        /\ addOk' = [addOk EXCEPT ![caller] = IF answer.ok THEN @ + 1 ELSE @]
        /\ last' = Response("add", caller, <<label, code>>, IF answer.ok THEN Ok ELSE answer.msg,
                            IF answer.ok THEN "ok" ELSE "err", {})
        /\ UNCHANGED <<RECOGNITION_ATTEMPTS, RECOGNITION_RESULTS, IS_ENABLED, blobs,
                       engineCalls, gatedCalls>>

(***************************************************************************)
(* The admin gate and the privileged entry points                          *)
(***************************************************************************)
\* Principal::from_text(ADMIN_PRINCIPAL): the constant is a well-formed
\* principal text (29 bytes, CRC32 prefix matches), so the parse succeeds.
AdminParses == TRUE

\* mutant: the admin gate lets every caller through
require_admin_Open(caller) == Ok

require_admin(caller) ==
    IF ~AdminParses THEN MsgInvalidAdmin
    ELSE IF caller # ADMIN_PRINCIPAL THEN MsgNotAdmin
    ELSE Ok

\* mutant: toggle_add_function lets every caller through
ToggleGate_Open(caller) == Ok

\* the inlined gate of toggle_add_function
ToggleGate(caller) ==
    IF ~AdminParses THEN MsgInvalidAdmin
    ELSE IF caller # ADMIN_PRINCIPAL THEN MsgToggleNotAdmin
    ELSE Ok

toggle_add_function(caller, enable) ==
    LET gate == ToggleGate(caller) IN
    /\ IS_ENABLED' = IF gate = Ok THEN enable ELSE IS_ENABLED
    /\ last' = Response("toggle_add_function", caller, <<enable>>, gate, "none", {})
    /\ UNCHANGED <<RECOGNITION_ATTEMPTS, RECOGNITION_RESULTS, ADD_CALLERS, ADD_COUNT,
                   blobs, history>>

\* storage::clear_bytes(name): "clear named blob"
clear_bytes(name) == [blobs EXCEPT ![name] = <<>>]

\* storage::append_bytes(name, bytes): "append bytes to named blob"
append_bytes(name, bytes) == [blobs EXCEPT ![name] = @ \o bytes]

ClearModelBytes(op, file, caller) ==
    LET gate == require_admin(caller) IN
    /\ blobs' = IF gate = Ok THEN clear_bytes(file) ELSE blobs
    /\ last' = Response(op, caller, <<>>, gate, IF gate = Ok THEN "storage" ELSE "none", {})
    /\ UNCHANGED <<state, history>>

AppendModelBytes(op, file, caller, bytes) ==
    LET gate == require_admin(caller) IN
    /\ gate = Ok => Len(blobs[file]) + Len(bytes) <= MaxBlobLen
    /\ blobs' = IF gate = Ok THEN append_bytes(file, bytes) ELSE blobs
    /\ last' = Response(op, caller, <<bytes>>, gate, IF gate = Ok THEN "storage" ELSE "none", {})
    /\ UNCHANGED <<state, history>>

clear_face_detection_model_bytes(caller) ==
    ClearModelBytes("clear_face_detection_model_bytes", FACE_DETECTION_FILE, caller)

clear_face_recognition_model_bytes(caller) ==
    ClearModelBytes("clear_face_recognition_model_bytes", FACE_RECOGNITION_FILE, caller)

append_face_detection_model_bytes(caller, bytes) ==
    AppendModelBytes("append_face_detection_model_bytes", FACE_DETECTION_FILE, caller, bytes)

append_face_recognition_model_bytes(caller, bytes) ==
    AppendModelBytes("append_face_recognition_model_bytes", FACE_RECOGNITION_FILE, caller, bytes)

\* setup(storage::bytes(..), storage::bytes(..)) runs only behind the gate;
\* the blobs it was given are the payload recorded for the call.
setup_models(caller, answer) ==
    LET gate == require_admin(caller) IN
    /\ last' = IF gate # Ok THEN Response("setup_models", caller, <<>>, gate, "none", {})
               ELSE IF answer.ok
                    THEN Response("setup_models", caller, <<>>, Ok, "ok",
                                  {<<blobs[FACE_DETECTION_FILE], blobs[FACE_RECOGNITION_FILE]>>})
                    ELSE Response("setup_models", caller, <<>>, MsgSetupFailed, "err",
                                  {<<blobs[FACE_DETECTION_FILE], blobs[FACE_RECOGNITION_FILE]>>})
    /\ UNCHANGED <<state, blobs, history>>

(***************************************************************************)
(* Queries                                                                 *)
(***************************************************************************)
is_authorized(caller) ==
    /\ last' = Response("is_authorized", caller, <<>>,
                        IF ~AdminParses THEN MsgInvalidAdmin
                        ELSE IF caller # ADMIN_PRINCIPAL THEN MsgNotAdmin ELSE Ok,
                        "none", {})
    /\ UNCHANGED <<state, blobs, history>>

get_recognition_result(user) ==
    /\ last' = Response("get_recognition_result", NoCaller, <<user>>, Ok, "none",
                        IF user \in DOMAIN RECOGNITION_RESULTS
                        THEN {[label |-> RECOGNITION_RESULTS[user][1],
                               score |-> RECOGNITION_RESULTS[user][2]]}
                        ELSE {})
    /\ UNCHANGED <<state, blobs, history>>

get_add_callers ==
    /\ last' = Response("get_add_callers", NoCaller, <<>>, Ok, "none",
                        {<<Cardinality(ADD_CALLERS), ADD_CALLERS>>})
    /\ UNCHANGED <<state, blobs, history>>

get_all_recognition_results ==
    /\ last' = Response("get_all_recognition_results", NoCaller, <<>>, Ok, "none",
                        {<<p, RECOGNITION_RESULTS[p][1], RECOGNITION_RESULTS[p][2]>> :
                             p \in DOMAIN RECOGNITION_RESULTS})
    /\ UNCHANGED <<state, blobs, history>>

Next ==
    \/ \E c \in Identities, a \in RecognizeAnswers : recognize(c, a)
    \/ \E c \in Identities, l \in Labels, code \in Codes, a \in UnitAnswers : add(c, l, code, a)
    \/ \E c \in Identities, enable \in BOOLEAN : toggle_add_function(c, enable)
    \/ \E c \in Identities : is_authorized(c)
    \/ \E u \in Identities : get_recognition_result(u)
    \/ get_add_callers
    \/ get_all_recognition_results

Spec == Init /\ [][Next]_vars

NextAdmin ==
    \/ \E c \in Identities, enable \in BOOLEAN : toggle_add_function(c, enable)
    \/ \E c \in Identities : clear_face_detection_model_bytes(c)
    \/ \E c \in Identities : clear_face_recognition_model_bytes(c)
    \/ \E c \in Identities, b \in Chunks : append_face_detection_model_bytes(c, b)
    \/ \E c \in Identities, b \in Chunks : append_face_recognition_model_bytes(c, b)
    \/ \E c \in Identities, a \in UnitAnswers : setup_models(c, a)
    \/ \E c \in Identities : is_authorized(c)

SpecAdmin == Init /\ [][NextAdmin]_vars


(***************************************************************************)
(* recognize and add as steps around the external inference call           *)
(*                                                                         *)
(* The call into the engine is synchronous, so no other entry point runs   *)
(* while it is outstanding: a call is outstanding when the response        *)
(* recorded in last is "pending", and then only the return step of that    *)
(* call is enabled.  The local `attempts` of recognize equals the entry    *)
(* of the caller in RECOGNITION_ATTEMPTS for as long as the call is        *)
(* outstanding.                                                            *)
(***************************************************************************)
Pending == last.collab = "pending"

\* recognize up to the point where onnx::recognize is entered
recognize_call(caller) ==
    /\ ~Pending
    /\ IF ~IsEnrolled(caller) THEN
           /\ last' = Response("recognize", caller, <<>>, MsgNotEnrolled, "none", {})
           /\ UNCHANGED <<state, blobs, history>>
       ELSE IF HasResult(caller) THEN
           /\ last' = Response("recognize", caller, <<>>, MsgAlreadyRecognized, "none", {})
           /\ UNCHANGED <<state, blobs, history>>
       ELSE
           LET attempts == RecordAttempt(caller) IN
           /\ attempts <= MaxAttemptCount
           /\ RECOGNITION_ATTEMPTS' = Put(RECOGNITION_ATTEMPTS, caller, attempts)
           /\ gatedCalls' = [gatedCalls EXCEPT ![caller] = @ + 1]
           /\ UNCHANGED <<RECOGNITION_RESULTS, ADD_CALLERS, ADD_COUNT, IS_ENABLED, blobs, addOk>>
           /\ IF CeilingExceeded(attempts) THEN
                  /\ last' = Response("recognize", caller, <<>>, MsgMaxAttempts, "none", {})
                  /\ UNCHANGED engineCalls
              ELSE
                  /\ engineCalls' = [engineCalls EXCEPT ![caller] = @ + 1]
                  /\ last' = Response("recognize", caller, <<>>, "pending", "pending", {})

\* recognize from the return of onnx::recognize on
recognize_return(answer) ==
    /\ Pending /\ last.op = "recognize"
    /\ LET caller == last.caller
           attempts == RECOGNITION_ATTEMPTS[caller] IN
       IF answer.ok THEN
           /\ RECOGNITION_RESULTS' = Put(RECOGNITION_RESULTS, caller,
                                         <<answer.person.label, answer.person.score>>)
           /\ last' = Response("recognize", caller, <<>>, Ok, "ok", {answer.person})
       ELSE
           /\ UNCHANGED RECOGNITION_RESULTS
           /\ last' = Response("recognize", caller, <<>>,
                               RecognizeErrMsg(attempts, answer), "err", {})
    /\ UNCHANGED <<RECOGNITION_ATTEMPTS, ADD_CALLERS, ADD_COUNT, IS_ENABLED, blobs, history>>

\* add up to the point where onnx::add is entered
add_call(caller, label, code) ==
    /\ ~Pending
    /\ LET rejection == AddRejection(caller, label, code) IN
       last' = IF rejection # "none"
               THEN Response("add", caller, <<label, code>>, rejection, "none", {})
               ELSE Response("add", caller, <<label, code>>, "pending", "pending", {})
    /\ UNCHANGED <<state, blobs, history>>

\* add from the return of onnx::add on
add_return(answer) ==
    /\ Pending /\ last.op = "add"
    /\ ADD_CALLERS' = AddCallersAfter(last.caller, answer)
    /\ ADD_COUNT' = AddCountAfter(answer)
    /\ addOk' = [addOk EXCEPT ![last.caller] = IF answer.ok THEN @ + 1 ELSE @]
    /\ last' = Response("add", last.caller, last.arg, IF answer.ok THEN Ok ELSE answer.msg,
                        IF answer.ok THEN "ok" ELSE "err", {})
    /\ UNCHANGED <<RECOGNITION_ATTEMPTS, RECOGNITION_RESULTS, IS_ENABLED, blobs,
                   engineCalls, gatedCalls>>

\* toggle_add_function makes no external call; it runs between calls
toggle_between_calls(caller, enable) ==
    /\ ~Pending
    /\ toggle_add_function(caller, enable)

NextSteps ==
    \/ \E c \in Identities : recognize_call(c)
    \/ \E a \in RecognizeAnswers : recognize_return(a)
    \/ \E c \in Identities, l \in Labels, code \in Codes : add_call(c, l, code)
    \/ \E a \in UnitAnswers : add_return(a)
    \/ \E c \in Identities, enable \in BOOLEAN : toggle_between_calls(c, enable)

SpecSteps == Init /\ [][NextSteps]_vars

TypeOK ==
    /\ DOMAIN RECOGNITION_ATTEMPTS \subseteq Identities
    /\ DOMAIN RECOGNITION_RESULTS \subseteq Identities
    /\ ADD_CALLERS \subseteq Identities
    /\ ADD_COUNT \in Nat
    /\ IS_ENABLED \in BOOLEAN

(***************************************************************************)
(* Properties                                                              *)
(***************************************************************************)
\* the step is a call of entry point op by caller c
Called(op, c) == last'.op = op /\ last'.caller = c

\* C1: for every identity, the number of onnx::recognize invocations made on
\* its behalf never exceeds MAX_ATTEMPTS.
C1_EngineCallsBounded ==
    \A i \in Identities : engineCalls[i] <= MAX_ATTEMPTS

\* an identity used all its engine calls and its next recognize was turned
\* away at the ceiling
C1_Witness ==
    \E i \in Identities :
        /\ engineCalls[i] = MAX_ATTEMPTS
        /\ last.op = "recognize" /\ last.caller = i
        /\ last.result = MsgMaxAttempts /\ last.collab = "none"

\* C2: a recognize call by an identity outside the enrollment set returns
\* the Unauthorized error, whatever the engine would answer.
C2_NotEnrolledUnauthorized ==
    [][\A c \in Identities :
          (Called("recognize", c) /\ c \notin ADD_CALLERS)
              => (last'.result = MsgNotEnrolled /\ last'.collab = "none")]_vars

\* somebody is enrolled, and a caller who is not was turned away
C2_Witness ==
    /\ last.op = "recognize"
    /\ last.caller \notin ADD_CALLERS
    /\ ADD_CALLERS # {}
    /\ last.result = MsgNotEnrolled

\* C3: once an identity has a cached result, the entry stays and every
\* later recognize by that identity returns AlreadyRecognized without an
\* engine invocation.
C3_CachedShortCircuits ==
    [][/\ DOMAIN RECOGNITION_RESULTS \subseteq DOMAIN RECOGNITION_RESULTS'
       /\ \A c \in Identities :
              (Called("recognize", c) /\ c \in DOMAIN RECOGNITION_RESULTS)
                  => /\ last'.result = MsgAlreadyRecognized
                     /\ last'.collab = "none"
                     /\ engineCalls' = engineCalls]_vars

\* an identity with a cached result called recognize again
C3_Witness ==
    /\ last.op = "recognize"
    /\ last.caller \in DOMAIN RECOGNITION_RESULTS
    /\ last.result = MsgAlreadyRecognized

\* C4: for every identity, add returns Ok at most once.
C4_AddSucceedsAtMostOnce ==
    \A i \in Identities : addOk[i] <= 1

\* an identity whose add succeeded called add again with the valid code
\* while enrollment was enabled and below capacity
C4_Witness ==
    \E i \in Identities :
        /\ addOk[i] = 1
        /\ last.op = "add" /\ last.caller = i
        /\ last.arg[2] = ACCESS_CODE
        /\ IS_ENABLED /\ ADD_COUNT < MAX_ADD_CALLS
        /\ last.result # Ok

\* the add step is a call by an identity whose add has succeeded before
SecondAdd(c) == Called("add", c) /\ addOk[c] >= 1

\* C5 as stated: after an identity's add has succeeded, every later add by
\* it returns AlreadyEnrolled, before any engine call.
C5_SecondAddAlwaysAlreadyEnrolled ==
    [][\A c \in Identities :
          SecondAdd(c) => (last'.result = MsgAlreadyEnrolled /\ last'.collab = "none")]_vars

\* C5 amended: after an identity's add has succeeded, a later add by it
\* never reaches the engine and never succeeds; it returns AlreadyEnrolled
\* when it carries the valid access code while enrollment is enabled, and
\* otherwise the earlier-ranked UnauthorizedFrontend (wrong code) or
\* FunctionDisabled (valid code, flag off).
C5_SecondAddRejected ==
    [][\A c \in Identities :
          SecondAdd(c) =>
              /\ last'.collab = "none"
              /\ ADD_CALLERS' = ADD_CALLERS /\ ADD_COUNT' = ADD_COUNT
              /\ last'.result =
                    IF last'.arg[2] # ACCESS_CODE THEN MsgFrontend
                    ELSE IF ~IS_ENABLED THEN MsgDisabled
                    ELSE MsgAlreadyEnrolled]_vars

\* an enrolled identity called add again with the valid code while
\* enrollment was enabled, and was told AlreadyEnrolled
C5_Witness ==
    /\ last.op = "add"
    /\ addOk[last.caller] = 1
    /\ last.arg[2] = ACCESS_CODE
    /\ IS_ENABLED
    /\ last.result = MsgAlreadyEnrolled

RECURSIVE SumOver(_, _)
SumOver(f, S) ==
    IF S = {} THEN 0
    ELSE LET x == CHOOSE y \in S : TRUE IN f[x] + SumOver(f, S \ {x})

\* C6: ADD_COUNT always equals the size of ADD_CALLERS and the number of add
\* calls that returned Ok so far, and it never decreases.
C6_CounterMatchesSet ==
    /\ [](/\ ADD_COUNT = Cardinality(ADD_CALLERS)
          /\ ADD_COUNT = SumOver(addOk, Identities))
    /\ [][ADD_COUNT' >= ADD_COUNT]_vars

\* the second successful add, by a second identity, has just returned
C6_Witness ==
    /\ ADD_COUNT = 2
    /\ Cardinality(ADD_CALLERS) = 2
    /\ last.op = "add" /\ last.result = Ok

\* the errors of add ranked at or before the capacity check
UpToCapacity == {MsgAnonymous, MsgFrontend, MsgDisabled, MsgAlreadyEnrolled, MsgCapacity}

\* C7: no add succeeds once ADD_COUNT has reached MAX_ADD_CALLS (it returns
\* CapacityExceeded or an earlier-ranked error), the enrollment set never
\* holds more than MAX_ADD_CALLS identities, and no identity leaves it.
C7_CapacityRespected ==
    /\ [](Cardinality(ADD_CALLERS) <= MAX_ADD_CALLS)
    /\ [][/\ ADD_CALLERS \subseteq ADD_CALLERS'
          /\ \A c \in Identities :
                 (Called("add", c) /\ ADD_COUNT >= MAX_ADD_CALLS)
                     => /\ last'.result \in UpToCapacity
                        /\ last'.collab = "none"
                        /\ ADD_CALLERS' = ADD_CALLERS]_vars

\* the set is full and an add was turned away with CapacityExceeded
C7_Witness ==
    /\ Cardinality(ADD_CALLERS) = MAX_ADD_CALLS
    /\ last.op = "add"
    /\ last.result = MsgCapacity

\* the entry points behind the admin gate
Privileged ==
    {"toggle_add_function", "clear_face_detection_model_bytes",
     "clear_face_recognition_model_bytes", "append_face_detection_model_bytes",
     "append_face_recognition_model_bytes", "setup_models"}

\* the messages of the Unauthorized kind given to a caller who is not the admin
UnauthorizedNotAdmin == {MsgToggleNotAdmin, MsgNotAdmin}

\* C8: a privileged entry point called by anyone but the admin returns an
\* Unauthorized error, leaves the feature flag and the stored blobs as they
\* were and calls no collaborator.
C8_PrivilegedAdminOnly ==
    [][\A c \in Identities \ {ADMIN_PRINCIPAL} :
          last'.op \in Privileged /\ last'.caller = c
              => /\ last'.result \in UnauthorizedNotAdmin
                 /\ last'.collab = "none"
                 /\ IS_ENABLED' = IS_ENABLED
                 /\ blobs' = blobs]_vars

\* with the flag on and bytes stored, someone else tried to clear a blob
C8_Witness ==
    /\ last.op = "clear_face_detection_model_bytes"
    /\ last.caller # ADMIN_PRINCIPAL
    /\ last.result = MsgNotAdmin
    /\ IS_ENABLED
    /\ blobs[FACE_DETECTION_FILE] # <<>>

\* the two messages of the AttemptsExceeded kind
AttemptsExceeded == {MsgFailedAfter, MsgMaxAttempts}

\* C9: for an enrolled identity without a cached result whose engine calls
\* all fail, the first and second recognize return the engine's message,
\* the third returns AttemptsExceeded after invoking the engine, and every
\* later one returns AttemptsExceeded without invoking it.
C9_FailingEngineSequence ==
    [][\A c \in Identities :
          (/\ Called("recognize", c)
           /\ c \in ADD_CALLERS
           /\ c \notin DOMAIN RECOGNITION_RESULTS
           /\ last'.collab # "ok")
              => IF gatedCalls[c] < MAX_ATTEMPTS - 1
                 THEN last'.result = EngineErrMsg /\ last'.collab = "err"
                 ELSE IF gatedCalls[c] = MAX_ATTEMPTS - 1
                 THEN last'.result \in AttemptsExceeded /\ last'.collab = "err"
                 ELSE last'.result \in AttemptsExceeded /\ last'.collab = "none"]_vars

\* the fifth call of an identity whose three engine calls failed
C9_Witness ==
    /\ last.op = "recognize"
    /\ gatedCalls[last.caller] = MAX_ATTEMPTS + 2
    /\ engineCalls[last.caller] = MAX_ATTEMPTS
    /\ last.caller \notin DOMAIN RECOGNITION_RESULTS
    /\ last.result = MsgMaxAttempts

\* C10: an add call that returns an error leaves the enrollment set, the
\* counter, the feature flag, the attempt counters and the result cache
\* as they were.
C10_FailedAddChangesNothing ==
    [][(last'.op = "add" /\ last'.result # Ok) => UNCHANGED state]_vars

\* after somebody enrolled, another identity's add reached the engine and
\* the engine failed
C10_Witness ==
    /\ last.op = "add"
    /\ last.collab = "err"
    /\ last.caller \notin ADD_CALLERS
    /\ ADD_COUNT = 1

\* some cached result carries the label
LabelCached(label) ==
    \E k \in DOMAIN RECOGNITION_RESULTS : RECOGNITION_RESULTS[k][1] = label

\* C11: when some identity's cached result carries label L, an add with
\* label L by a non-anonymous, not yet enrolled identity with the valid
\* code, with enrollment enabled and the counter below MAX_ADD_CALLS,
\* returns LabelAlreadyRecognized, invokes no engine and enrolls nobody.
C11_LabelCollisionRejected ==
    [][\A c \in Identities \ {Anonymous} :
          (/\ Called("add", c)
           /\ c \notin ADD_CALLERS
           /\ last'.arg[2] = ACCESS_CODE
           /\ IS_ENABLED
           /\ ADD_COUNT < MAX_ADD_CALLS
           /\ LabelCached(last'.arg[1]))
              => /\ last'.result = MsgLabelRecognized
                 /\ last'.collab = "none"
                 /\ ADD_CALLERS' = ADD_CALLERS
                 /\ ADD_COUNT' = ADD_COUNT]_vars

\* an identity that is not enrolled asked for a label somebody else was
\* recognized under, and was turned away for it
C11_Witness ==
    /\ last.op = "add"
    /\ last.caller \notin ADD_CALLERS
    /\ LabelCached(last.arg[1])
    /\ last.result = MsgLabelRecognized

\* C12: the feature flag starts false and changes only in a
\* toggle_add_function step of the admin, after which it equals the enable
\* argument.
C12_FlagAdminOnly ==
    /\ IS_ENABLED = FALSE
    /\ [][/\ IS_ENABLED' # IS_ENABLED => Called("toggle_add_function", ADMIN_PRINCIPAL)
          /\ Called("toggle_add_function", ADMIN_PRINCIPAL) => IS_ENABLED' = last'.arg[1]]_vars

\* the flag is on and somebody who is not the admin asked to turn it off
C12_Witness ==
    /\ IS_ENABLED
    /\ last.op = "toggle_add_function"
    /\ last.caller # ADMIN_PRINCIPAL
    /\ last.arg[1] = FALSE
    /\ last.result = MsgToggleNotAdmin

\* the error of the first precondition of add that fails for caller c, label
\* l and code k in the current state, in the order anonymous, access code,
\* feature flag, already enrolled, capacity, label; "none" when none fails
FirstFailing(c, l, k) ==
    LET failing == <<c = Anonymous, k # ACCESS_CODE, ~IS_ENABLED, c \in ADD_CALLERS,
                     ADD_COUNT >= MAX_ADD_CALLS, LabelCached(l)>>
        errors == <<MsgAnonymous, MsgFrontend, MsgDisabled, MsgAlreadyEnrolled,
                    MsgCapacity, MsgLabelRecognized>>
        ranks == {r \in 1..6 : failing[r]}
    IN IF ranks = {} THEN "none"
       ELSE errors[CHOOSE r \in ranks : \A q \in ranks : r <= q]

\* C13: add returns the error of the first failing precondition in the
\* fixed order, for every combination of failing preconditions, and the
\* engine is invoked exactly when none fails.
C13_AddFirstFailureWins ==
    [][\A c \in Identities :
          Called("add", c) =>
              LET first == FirstFailing(c, last'.arg[1], last'.arg[2]) IN
              IF first = "none" THEN last'.collab # "none"
              ELSE last'.result = first /\ last'.collab = "none"]_vars

\* an add for which the access code, the flag, the enrollment set, the
\* capacity and the label all fail at once
C13_Witness ==
    /\ last.op = "add"
    /\ last.arg[2] # ACCESS_CODE
    /\ ~IS_ENABLED
    /\ last.caller \in ADD_CALLERS
    /\ ADD_COUNT >= MAX_ADD_CALLS
    /\ LabelCached(last.arg[1])
    /\ last.result = MsgFrontend

\* C14: an entry of the result cache is never changed or removed, and
\* recognize writes an entry only for an identity that has none.
C14_CacheWriteOnce ==
    [][/\ \A c \in DOMAIN RECOGNITION_RESULTS :
              /\ c \in DOMAIN RECOGNITION_RESULTS'
              /\ RECOGNITION_RESULTS'[c] = RECOGNITION_RESULTS[c]
       /\ \A c \in Identities :
              (Called("recognize", c) /\ last'.result = Ok)
                  => /\ c \notin DOMAIN RECOGNITION_RESULTS
                     /\ c \in DOMAIN RECOGNITION_RESULTS'
       /\ RECOGNITION_RESULTS' # RECOGNITION_RESULTS
              => last'.op = "recognize" /\ last'.result = Ok]_vars

\* two identities hold entries with different labels, and the first of
\* them called recognize again
C14_Witness ==
    \E c, d \in DOMAIN RECOGNITION_RESULTS :
        /\ RECOGNITION_RESULTS[c][1] # RECOGNITION_RESULTS[d][1]
        /\ last.op = "recognize" /\ last.caller = c
        /\ last.result = MsgAlreadyRecognized

\* the attempt count of an identity (an absent entry counts as 0)
AttemptsOf(c) == IF c \in DOMAIN RECOGNITION_ATTEMPTS THEN RECOGNITION_ATTEMPTS[c] ELSE 0

\* the per-identity state of the recognition workflow
StateOf(c) ==
    IF c \notin ADD_CALLERS THEN "Unenrolled"
    ELSE IF c \in DOMAIN RECOGNITION_RESULTS THEN "Succeeded"
    ELSE IF AttemptsOf(c) >= MAX_ATTEMPTS THEN "Exhausted"
    ELSE IF AttemptsOf(c) = 0 THEN "NoAttempts"
    ELSE "Attempting"

Terminal == {"Succeeded", "Exhausted"}

\* C15: Succeeded and Exhausted are terminal: no step moves an identity out
\* of them, and no recognize by such an identity invokes the engine or
\* returns Ok.
C15_TerminalStates ==
    [][\A c \in Identities :
          StateOf(c) \in Terminal
              => /\ StateOf(c)' = StateOf(c)
                 /\ Called("recognize", c)
                        => /\ last'.result # Ok
                           /\ last'.collab = "none"
                           /\ engineCalls' = engineCalls]_vars

\* one identity is Succeeded, another is Exhausted and has just called
\* recognize again
C15_Witness ==
    \E c, d \in Identities :
        /\ StateOf(c) = "Succeeded"
        /\ StateOf(d) = "Exhausted"
        /\ gatedCalls[d] > MAX_ATTEMPTS
        /\ last.op = "recognize" /\ last.caller = d

\* C16: the attempt counter of every identity is at most MAX_ATTEMPTS + 1.
C16_AttemptsBounded ==
    \A c \in Identities : AttemptsOf(c) <= MAX_ATTEMPTS + 1

\* the step resumes an operation from an external call that succeeded
AfterSuccess == last.collab = "pending" /\ last'.collab = "ok"

\* the step resumes an operation from an external call that failed
AfterFailure == last.collab = "pending" /\ last'.collab = "err"

\* C17 as stated: every update of the attempt counters, the result cache,
\* the enrollment set and the enrollment counter happens in the step after
\* a successful external call.
C17_NoUpdateBeforeSuccess ==
    [][<<RECOGNITION_ATTEMPTS, RECOGNITION_RESULTS, ADD_CALLERS, ADD_COUNT>>'
           # <<RECOGNITION_ATTEMPTS, RECOGNITION_RESULTS, ADD_CALLERS, ADD_COUNT>>
          => AfterSuccess]_vars

\* C17 amended: the result cache, the enrollment set and the enrollment
\* counter are updated only in the step after a successful external call,
\* and the step after a failed external call updates nothing; the attempt
\* counter is the exception: recognize increments the caller's counter by
\* one before it enters the external call (or is turned away at the
\* ceiling), and a failed call leaves it incremented.
C17_UpdatesAroundCall ==
    [][/\ <<RECOGNITION_RESULTS, ADD_CALLERS, ADD_COUNT>>'
              # <<RECOGNITION_RESULTS, ADD_CALLERS, ADD_COUNT>> => AfterSuccess
       /\ AfterFailure => UNCHANGED state
       /\ RECOGNITION_ATTEMPTS' # RECOGNITION_ATTEMPTS
              => /\ last.collab # "pending"
                 /\ last'.op = "recognize"
                 /\ last'.collab \in {"pending", "none"}
                 /\ RECOGNITION_ATTEMPTS' =
                        Put(RECOGNITION_ATTEMPTS, last'.caller, AttemptsOf(last'.caller) + 1)
       /\ \A c \in Identities :
              (Called("recognize", c) /\ last'.collab = "pending")
                  => AttemptsOf(c)' = AttemptsOf(c) + 1]_vars

\* the engine has just failed the first recognize of an identity, whose
\* counter stays at 1
C17_Witness ==
    /\ last.op = "recognize"
    /\ last.collab = "err"
    /\ AttemptsOf(last.caller) = 1
    /\ last.caller \notin DOMAIN RECOGNITION_RESULTS

\* the two early rejections of recognize
EarlyRejections == {MsgNotEnrolled, MsgAlreadyRecognized}

\* C18: a recognize call rejected as Unauthorized or as AlreadyRecognized
\* leaves all state unchanged, the caller's attempt counter included.
C18_RejectedRecognizeChangesNothing ==
    [][\A c \in Identities :
          (Called("recognize", c) /\ last'.result \in EarlyRejections)
              => /\ UNCHANGED <<state, blobs>>
                 /\ AttemptsOf(c)' = AttemptsOf(c)]_vars

\* an identity with a cached result and fewer than MAX_ATTEMPTS attempts
\* was told AlreadyRecognized
C18_Witness ==
    /\ last.op = "recognize"
    /\ last.result = MsgAlreadyRecognized
    /\ AttemptsOf(last.caller) < MAX_ATTEMPTS

\* C19: every identity with a cached result is enrolled and has an attempt
\* counter between 1 and MAX_ATTEMPTS, and every identity with a non-zero
\* attempt counter is enrolled.
C19_CachedImpliesEnrolledAndCounted ==
    /\ \A c \in DOMAIN RECOGNITION_RESULTS :
           /\ c \in ADD_CALLERS
           /\ AttemptsOf(c) >= 1
           /\ AttemptsOf(c) <= MAX_ATTEMPTS
    /\ \A c \in Identities : AttemptsOf(c) # 0 => c \in ADD_CALLERS

\* one identity was recognized on its last permitted attempt, another ran
\* past the ceiling, and a third is not enrolled
C19_Witness ==
    \E c, d, e \in Identities :
        /\ c \in DOMAIN RECOGNITION_RESULTS /\ AttemptsOf(c) = MAX_ATTEMPTS
        /\ d \notin DOMAIN RECOGNITION_RESULTS /\ AttemptsOf(d) > MAX_ATTEMPTS
        /\ e # Anonymous /\ e \notin ADD_CALLERS

\* C20: the anonymous identity is never enrolled and never has a cached
\* result or an attempt counter, every add by it returns
\* AnonymousNotAllowed and every recognize by it returns Unauthorized.
C20_AnonymousShutOut ==
    /\ [](/\ Anonymous \notin ADD_CALLERS
          /\ Anonymous \notin DOMAIN RECOGNITION_RESULTS
          /\ AttemptsOf(Anonymous) = 0)
    /\ [][/\ Called("add", Anonymous)
              => last'.result = MsgAnonymous /\ last'.collab = "none"
          /\ Called("recognize", Anonymous)
              => last'.result = MsgNotEnrolled /\ last'.collab = "none"]_vars

\* with enrollment enabled and room left, the anonymous identity called add
\* with the valid code and a fresh label
C20_Witness ==
    /\ last.op = "add"
    /\ last.caller = Anonymous
    /\ last.arg[2] = ACCESS_CODE
    /\ IS_ENABLED
    /\ ADD_COUNT < MAX_ADD_CALLS
    /\ ~LabelCached(last.arg[1])
    /\ last.result = MsgAnonymous
====
